---- MODULE Spec2Model ----
(***************************************************************************)
(* The weather pipeline of main.py (clean_weather_data, statistical_summary,*)
(* detect_anomalies, classify_weather) and the second clean_weather_data of *)
(* datacleaning.py, as a state machine over one DataFrame.                  *)
(*                                                                          *)
(* A cell is a record [kind, v]: kind says what the cell holds, v its       *)
(* value.  Raw cells are text; pd.to_numeric / pd.to_datetime turn them     *)
(* into numbers / dates or into the missing markers NaN / NaT.  A row also  *)
(* carries its DataFrame index label, which dropna and sort_values keep.    *)
(***************************************************************************)
EXTENDS Integers, Sequences, FiniteSets, TLC

VARIABLES
    df,        \* the rows of the DataFrame, in positional order
    columns,   \* the column labels the DataFrame has
    pc,        \* where the caller stands in the stage sequence
    err,       \* the exception that escaped a stage, "none" if none did
    diag,      \* what the stages printed: no-data line, rows removed, anomalies
    report,    \* what statistical_summary printed
    cleaner,   \* which clean_weather_data ran: "main", "datacleaning" or "none"
    prev       \* history: the rows as they were before the latest stage ran

vars == <<df, columns, pc, err, diag, report, cleaner, prev>>

----------------------------------------------------------------------------
(* Bounds of the model *)

\* rows of a raw input table
MaxRows == 3
\* rows of a table handed directly to detect_anomalies
MaxDetectRows == 6

----------------------------------------------------------------------------
(* Cells *)

Text(s)  == [kind |-> "text", v |-> s]
Num(x)   == [kind |-> "num", v |-> x]
Date(x)  == [kind |-> "date", v |-> x]
NaN      == [kind |-> "nan", v |-> 0]
NaT      == [kind |-> "nat", v |-> 0]
None     == [kind |-> "none", v |-> 0]
PosInf   == [kind |-> "inf", v |-> 1]
NegInf   == [kind |-> "inf", v |-> -1]
Absent   == [kind |-> "absent", v |-> 0]

\* pandas isna: the markers dropna looks for
isna(c) == c.kind \in {"nan", "nat", "none"}

AllColumns == {"city", "date", "temperature"}

\* the cell of row r under column label col
Cell(r, col) ==
    CASE col = "city" -> r.city
      [] col = "date" -> r.date
      [] col = "temperature" -> r.temperature

----------------------------------------------------------------------------
(* pd.to_numeric(..., errors="coerce") on one cell: an optional minus sign *)
(* followed by one or more decimal digits is that number, a numeric cell   *)
(* is itself, anything else is NaN.                                        *)

DigitVal ==
    ("0" :> 0) @@ ("1" :> 1) @@ ("2" :> 2) @@ ("3" :> 3) @@ ("4" :> 4) @@
    ("5" :> 5) @@ ("6" :> 6) @@ ("7" :> 7) @@ ("8" :> 8) @@ ("9" :> 9)

IsDigits(s) == Len(s) > 0 /\ \A i \in 1..Len(s) : s[i] \in DOMAIN DigitVal

RECURSIVE DigitsValue(_)
DigitsValue(s) ==
    IF s = <<>> THEN 0
    ELSE 10 * DigitsValue(SubSeq(s, 1, Len(s) - 1)) + DigitVal[s[Len(s)]]

to_numeric(c) ==
    IF c.kind = "num" THEN c
    ELSE IF c.kind # "text" THEN NaN
    ELSE LET s == c.v
             neg == s # <<>> /\ s[1] = "-"
             body == IF neg THEN Tail(s) ELSE s
         IN  IF IsDigits(body)
             THEN Num(IF neg THEN 0 - DigitsValue(body) ELSE DigitsValue(body))
             ELSE NaN

----------------------------------------------------------------------------
(* pd.to_datetime(..., errors="coerce") on one cell.  A date text          *)
(* "YYYY-MM-DD" is held as its three fields <<y, m, d>>; it parses when    *)
(* the month and the day exist in the calendar, to a timestamp that orders *)
(* as the calendar does; anything else is NaT.                             *)

IsLeap(y) == (y % 4 = 0 /\ y % 100 # 0) \/ y % 400 = 0

DaysInMonth(y, m) ==
    IF m = 2 THEN (IF IsLeap(y) THEN 29 ELSE 28)
    ELSE IF m \in {4, 6, 9, 11} THEN 30 ELSE 31

to_datetime(c) ==
    IF c.kind = "date" THEN c
    ELSE IF c.kind # "text" THEN NaT
    ELSE LET y == c.v[1]
             m == c.v[2]
             d == c.v[3]
         IN  IF m \in 1..12 /\ d \in 1..DaysInMonth(y, m)
             THEN Date(y * 10000 + m * 100 + d)
             ELSE NaT

----------------------------------------------------------------------------
(* DataFrame helpers *)

\* df.empty: no rows, or no columns
empty(rows, cols) == Len(rows) = 0 \/ cols = {}

\* df["temperature"] = pd.to_numeric(df["temperature"], errors="coerce")
CoerceTemperature(rows) ==
    [i \in 1..Len(rows) |->
        [rows[i] EXCEPT !.temperature = to_numeric(rows[i].temperature)]]

\* df["date"] = pd.to_datetime(df["date"], errors="coerce")
CoerceDate(rows) ==
    [i \in 1..Len(rows) |-> [rows[i] EXCEPT !.date = to_datetime(rows[i].date)]]

\* a dropna that looks at the coerced columns only
DropnaCoercedOnly(rows, cols) ==
    SelectSeq(rows, LAMBDA r :
        ~(\E col \in cols \cap {"date", "temperature"} : isna(Cell(r, col))))

\* df.dropna(): drop the rows that hold a missing marker in ANY column
HasNa(r, cols) == \E col \in cols : isna(Cell(r, col))

dropna(rows, cols) == SelectSeq(rows, LAMBDA r : ~HasNa(r, cols))

\* df.sort_values(by="date") with the default kind="quicksort", which is not
\* a stable sort: every ordering of the rows that is ascending in date is a
\* possible outcome, rows of equal date in any relative order.
Injective(p) == \A i, j \in DOMAIN p : p[i] = p[j] => i = j

sort_values(rows) ==
    LET n == Len(rows)
    IN  { [i \in 1..n |-> rows[p[i]]] :
            p \in { q \in [1..n -> 1..n] :
                      /\ Injective(q)
                      /\ \A i, j \in 1..n :
                           i < j => rows[q[i]].date.v <= rows[q[j]].date.v } }

----------------------------------------------------------------------------
(* Stage outcomes *)

NoDiag == [nodata |-> FALSE, removed |-> 0, anomalies |-> -1]
NoReport == [total |-> -1, cities |-> <<>>, city_stats |-> <<>>, overall |-> <<>>]

----------------------------------------------------------------------------
(* clean_weather_data of main.py.  The frame is changed in place, so a     *)
(* KeyError on "date" leaves the temperature column already coerced.       *)

\* a cleaner that misses the date column only when it comes to sort
CleanRaisesTemperatureOnly(rows, cols) ==
    ~empty(rows, cols) /\ "temperature" \notin cols

CleanRaises(rows, cols) ==
    ~empty(rows, cols) /\ ("temperature" \notin cols \/ "date" \notin cols)

Clean ==
    /\ pc = "start"
    /\ cleaner' = "main"
    /\ prev' = df
    /\ UNCHANGED <<columns, report>>
    /\ IF empty(df, columns)
       THEN /\ diag' = [diag EXCEPT !.nodata = TRUE]
            /\ df' = df
            /\ pc' = "cleaned"
            /\ err' = err
       ELSE IF CleanRaises(df, columns)
       THEN /\ df' = IF "temperature" \in columns
                     THEN CoerceTemperature(df) ELSE df
            /\ pc' = "raised"
            /\ err' = "KeyError"
            /\ diag' = diag
       ELSE LET coerced == CoerceDate(CoerceTemperature(df))
                kept == dropna(coerced, columns)
            IN  /\ diag' = [diag EXCEPT !.removed = Len(df) - Len(kept)]
                /\ \E sorted \in sort_values(kept) : df' = sorted
                /\ pc' = "cleaned"
                /\ err' = err

(* clean_weather_data of datacleaning.py: coerce and drop, column by       *)
(* column, and return; there is no sort and no count of removed rows.      *)

CleanDataCleaning ==
    /\ pc = "start"
    /\ cleaner' = "datacleaning"
    /\ prev' = df
    /\ UNCHANGED <<columns, report>>
    /\ IF empty(df, columns)
       THEN /\ diag' = [diag EXCEPT !.nodata = TRUE]
            /\ df' = df
            /\ pc' = "cleaned"
            /\ err' = err
       ELSE IF "temperature" \notin columns
       THEN /\ df' = df
            /\ pc' = "raised"
            /\ err' = "KeyError"
            /\ diag' = diag
       ELSE LET first == dropna(CoerceTemperature(df), columns)
            IN  IF "date" \notin columns
                THEN /\ df' = first
                     /\ pc' = "raised"
                     /\ err' = "KeyError"
                     /\ diag' = diag
                ELSE /\ df' = dropna(CoerceDate(first), columns)
                     /\ pc' = "cleaned"
                     /\ err' = err
                     /\ diag' = diag

(* main(): an empty frame from the scraper ends the program before any     *)
(* stage is called.                                                        *)

MainExit ==
    /\ pc = "start"
    /\ empty(df, columns)
    /\ pc' = "exit"
    /\ UNCHANGED <<df, columns, err, diag, report, cleaner, prev>>

----------------------------------------------------------------------------
(* statistical_summary: prints, and changes nothing in the frame.  The     *)
(* quartiles it prints last are not part of the report modelled here.      *)

RECURSIVE SumSeq(_)
SumSeq(s) == IF s = <<>> THEN 0 ELSE s[1] + SumSeq(Tail(s))

\* the city names in ascending string order, as Python compares them
CityOrder == <<"Ankara", "Bursa">>

\* Series.unique(): the distinct values in order of first appearance
RECURSIVE unique(_)
unique(s) ==
    IF s = <<>> THEN <<>>
    ELSE LET front == unique(SubSeq(s, 1, Len(s) - 1))
             x == s[Len(s)]
         IN  IF \E i \in 1..Len(front) : front[i] = x
             THEN front ELSE Append(front, x)

CityColumn(rows) == [i \in 1..Len(rows) |-> rows[i].city]

\* groupby(..., sort=False): the keys in order of first appearance
GroupbyKeysUnsorted(rows) ==
    LET seen == unique(SelectSeq(CityColumn(rows), LAMBDA c : c.kind = "text"))
    IN  [k \in 1..Len(seen) |-> seen[k].v]

\* the group keys of df.groupby('city'): sort=True by default, so the keys
\* come in ascending order; rows whose key is missing are left out
groupby_keys(rows) ==
    SelectSeq(CityOrder,
              LAMBDA c : \E i \in 1..Len(rows) : rows[i].city = Text(c))

\* .agg(['mean', 'min', 'max', 'count']) over a sequence of temperature
\* cells: NaN cells are skipped, the mean is kept as <<sum, count>>
agg(cells) ==
    LET nums == SelectSeq(cells, LAMBDA c : c.kind = "num")
        vals == [i \in 1..Len(nums) |-> nums[i].v]
        S == {vals[i] : i \in 1..Len(vals)}
    IN  [mean |-> IF vals = <<>> THEN NaN
                  ELSE [kind |-> "ratio", v |-> <<SumSeq(vals), Len(vals)>>],
         min |-> IF vals = <<>> THEN NaN
                 ELSE Num(CHOOSE x \in S : \A y \in S : x <= y),
         max |-> IF vals = <<>> THEN NaN
                 ELSE Num(CHOOSE x \in S : \A y \in S : x >= y),
         count |-> Len(vals)]

TemperatureColumn(rows) == [i \in 1..Len(rows) |-> rows[i].temperature]

city_stats(rows) ==
    LET keys == groupby_keys(rows)
    IN  [k \in 1..Len(keys) |->
            [city |-> keys[k],
             stats |-> agg(TemperatureColumn(
                         SelectSeq(rows, LAMBDA r : r.city = Text(keys[k]))))]]

\* a summary whose aggregates fail on a table without rows
SummaryRaisesOnEmpty(rows, cols) ==
    IF "city" \in cols /\ \E i \in 1..Len(rows) : isna(rows[i].city)
    THEN "TypeError"
    ELSE IF "temperature" \notin cols THEN "KeyError"
    ELSE IF Len(rows) = 0 THEN "EmptyInputError"
    ELSE "none"

\* the exception statistical_summary ends with, "none" when it returns:
\* ', '.join fails on a missing city, every df['temperature'] on a missing
\* column
SummaryRaises(rows, cols) ==
    IF "city" \in cols /\ \E i \in 1..Len(rows) : isna(rows[i].city)
    THEN "TypeError"
    ELSE IF "temperature" \notin cols THEN "KeyError"
    ELSE "none"

StatisticalSummary ==
    /\ pc = "cleaned"
    /\ prev' = df
    /\ UNCHANGED <<df, columns, diag, cleaner>>
    /\ LET e == SummaryRaises(df, columns)
       IN  IF e # "none"
           THEN /\ err' = e
                /\ pc' = "raised"
                /\ report' = [report EXCEPT !.total = Len(df)]
           ELSE /\ err' = err
                /\ pc' = "summarised"
                /\ report' =
                     [total |-> Len(df),
                      cities |-> IF "city" \in columns
                                 THEN unique(CityColumn(df)) ELSE <<>>,
                      city_stats |-> IF "city" \in columns
                                     THEN city_stats(df) ELSE <<>>,
                      overall |-> agg(TemperatureColumn(df))]

----------------------------------------------------------------------------
(* detect_anomalies.  Temperatures are integers here, and mean and std are *)
(* kept exact by scaling with n = len(df):                                 *)
(*    ScaledDev(t)  = n * (t - mean)                                       *)
(*    ScaledSS      = n^2 * sum of (t - mean)^2                            *)
(*    n * std       = sqrt(ScaledSS / (n - Ddof))                          *)
(* so  t > mean + Band*std  iff  ScaledDev(t) > 0 and                      *)
(*     ScaledDev(t)^2 * (n - Ddof) > Band^2 * ScaledSS.                    *)
(* std is NaN when n - Ddof <= 0, and every comparison with NaN is false.  *)

\* rolling(window=3)
Window == 3
\* mean + 2 * std, mean - 2 * std
Band == 2
\* Series.std() divides by n - 1
Ddof == 1

Values(rows) == [i \in 1..Len(rows) |-> rows[i].temperature.v]

\* rolling(window=3, min_periods=1): a partial-window mean at the start
RollingMeanPartial(temps, i) ==
    IF i < Window
    THEN [kind |-> "ratio", v |-> <<SumSeq(SubSeq(temps, 1, i)), i>>]
    ELSE [kind |-> "ratio",
          v |-> <<SumSeq(SubSeq(temps, i - Window + 1, i)), Window>>]

\* df["temperature"].rolling(window=3).mean() at position i: min_periods is
\* the window, so the first Window - 1 positions are NaN
rolling_mean(temps, i) ==
    IF i < Window THEN NaN
    ELSE [kind |-> "ratio",
          v |-> <<SumSeq(SubSeq(temps, i - Window + 1, i)), Window>>]

ScaledDev(t, temps) == Len(temps) * t - SumSeq(temps)

ScaledSS(temps) ==
    SumSeq([i \in 1..Len(temps) |->
               ScaledDev(temps[i], temps) * ScaledDev(temps[i], temps)])

\* std(ddof=0): the population standard deviation
StdDivisorPopulation(n) == n

StdDivisor(n) == n - Ddof

\* ~(temperature <= mean + Band * std): true when std is NaN
AboveBandNotLessEq(t, temps) ==
    ~(/\ StdDivisor(Len(temps)) > 0
      /\ ~(/\ ScaledDev(t, temps) > 0
           /\ ScaledDev(t, temps) * ScaledDev(t, temps) * StdDivisor(Len(temps))
                > Band * Band * ScaledSS(temps)))

\* temperature > mean + Band * std
AboveBand(t, temps) ==
    /\ StdDivisor(Len(temps)) > 0
    /\ ScaledDev(t, temps) > 0
    /\ ScaledDev(t, temps) * ScaledDev(t, temps) * StdDivisor(Len(temps))
         > Band * Band * ScaledSS(temps)

\* temperature < mean - Band * std
BelowBand(t, temps) ==
    /\ StdDivisor(Len(temps)) > 0
    /\ ScaledDev(t, temps) < 0
    /\ ScaledDev(t, temps) * ScaledDev(t, temps) * StdDivisor(Len(temps))
         > Band * Band * ScaledSS(temps)

\* np.select for one row: the choice of the first condition that is true
np_select(condlist, choicelist, default) ==
    IF \E k \in 1..Len(condlist) : condlist[k]
    THEN choicelist[CHOOSE k \in 1..Len(condlist) :
                      condlist[k] /\ \A j \in 1..(k - 1) : ~condlist[j]]
    ELSE default

anomaly_of(t, temps) ==
    np_select(<<AboveBand(t, temps), BelowBand(t, temps)>>,
              <<"High anomaly", "Low anomaly">>, "Normal")

detect_anomalies(rows) ==
    LET temps == Values(rows)
    IN  [i \in 1..Len(rows) |->
            [rows[i] EXCEPT !.rolling_avg = rolling_mean(temps, i),
                            !.anomaly = anomaly_of(temps[i], temps)]]

DetectAnomalies ==
    /\ pc = "summarised"
    /\ prev' = df
    /\ UNCHANGED <<report, cleaner>>
    /\ IF "temperature" \notin columns
       THEN /\ err' = "KeyError"
            /\ pc' = "raised"
            /\ UNCHANGED <<df, columns, diag>>
       ELSE LET out == detect_anomalies(df)
            IN  /\ df' = out
                /\ columns' = columns \cup {"rolling_avg", "anomaly"}
                /\ diag' = [diag EXCEPT !.anomalies =
                              Len(SelectSeq(out, LAMBDA r : r.anomaly # "Normal"))]
                /\ err' = err
                /\ pc' = "detected"

----------------------------------------------------------------------------
(* classify_weather.  A comparison with NaN is false; +inf and -inf        *)
(* compare as the largest and the smallest number.                         *)

Less(c, k) == (c.kind = "num" /\ c.v < k) \/ (c.kind = "inf" /\ c.v < 0)

\* > where the classifier has >=: the boundaries fall between the rules
GreaterStrict(c, k) == (c.kind = "num" /\ c.v > k) \/ (c.kind = "inf" /\ c.v > 0)

GreaterEq(c, k) == (c.kind = "num" /\ c.v >= k) \/ (c.kind = "inf" /\ c.v > 0)

condition_of(c) ==
    np_select(<<Less(c, 0),
                GreaterEq(c, 0) /\ Less(c, 10),
                GreaterEq(c, 10) /\ Less(c, 20),
                GreaterEq(c, 20) /\ Less(c, 30),
                GreaterEq(c, 30)>>,
              <<"Very Cold", "Cold", "Mild", "Hot", "Very Hot">>, "Unknown")

classify_weather(rows) ==
    [i \in 1..Len(rows) |->
        [rows[i] EXCEPT !.condition = condition_of(rows[i].temperature)]]

\* called on the detected frame, and once more on its own output
ClassifyWeather ==
    /\ pc \in {"detected", "classified"}
    /\ prev' = df
    /\ UNCHANGED <<diag, report, cleaner>>
    /\ IF "temperature" \notin columns
       THEN /\ err' = "KeyError"
            /\ pc' = "raised"
            /\ UNCHANGED <<df, columns>>
       ELSE /\ df' = classify_weather(df)
            /\ columns' = columns \cup {"condition"}
            /\ err' = err
            /\ pc' = IF pc = "detected" THEN "classified" ELSE "reclassified"

----------------------------------------------------------------------------
(* Input tables *)

Row(idx, city, date, temperature) ==
    [index |-> idx, city |-> city, date |-> date, temperature |-> temperature,
     rolling_avg |-> Absent, anomaly |-> "absent", condition |-> "absent"]

RawCities == {Text("Bursa"), Text("Ankara")}
RawDates == {Text(<<2024, 1, 6>>), Text(<<2024, 1, 5>>)}
RawTemperatures == {Text(<<"-", "3">>), Text(<<"3", "0">>)}
BadDate == Text(<<2024, 2, 30>>)
BadTemperature == Text(<<"3", "x">>)

\* <<city, date, temperature>> of the rows an input table is drawn from:
\* every combination of the parseable cells, and rows with a missing city,
\* an unparseable date, an unparseable temperature, or both
RowPool ==
    (RawCities \X RawDates \X RawTemperatures)
    \cup { <<None, Text(<<2024, 1, 5>>), Text(<<"3", "0">>)>>,
           <<Text("Bursa"), BadDate, Text(<<"3", "0">>)>>,
           <<Text("Ankara"), Text(<<2024, 1, 6>>), BadTemperature>>,
           <<Text("Ankara"), BadDate, BadTemperature>> }

\* the pool under a set of columns: a column the table lacks has no cells
Project(t, cols) ==
    <<IF "city" \in cols THEN t[1] ELSE Absent,
      IF "date" \in cols THEN t[2] ELSE Absent,
      IF "temperature" \in cols THEN t[3] ELSE Absent>>

\* a new frame has the index labels 0 .. n-1
Frame(cells) ==
    [i \in 1..Len(cells) |-> Row(i - 1, cells[i][1], cells[i][2], cells[i][3])]

Init ==
    /\ \E cols \in SUBSET AllColumns, n \in 0..MaxRows :
         \E cells \in [1..n -> {Project(t, cols) : t \in RowPool}] :
            /\ columns = cols
            /\ df = Frame(cells)
    /\ prev = df
    /\ pc = "start"
    /\ err = "none"
    /\ diag = NoDiag
    /\ report = NoReport
    /\ cleaner = "none"

Next ==
    \/ MainExit
    \/ Clean
    \/ CleanDataCleaning
    \/ StatisticalSummary
    \/ DetectAnomalies
    \/ ClassifyWeather

Spec == Init /\ [][Next]_vars

----------------------------------------------------------------------------
(* detect_anomalies called on its own: the table is one the cleaner can    *)
(* return (numeric temperatures, dates ascending, cities interleaved).     *)

DetectTemperatures == {0, 10, 30}

ExampleTemperatures ==
    { <<10, 20, 30>>,
      <<0, 0, 0, 0, 100>>,
      <<1, 1, 1, 1, 1, 1, 1, 1, 1, 1000>> }

CleanedFrame(temps) ==
    [i \in 1..Len(temps) |->
        Row(i - 1, Text(CityOrder[(i % 2) + 1]), Date(20240100 + i),
            Num(temps[i]))]

InitDetect ==
    /\ \E temps \in ExampleTemperatures \cup
                    UNION { [1..n -> DetectTemperatures] : n \in 0..MaxDetectRows } :
          df = CleanedFrame(temps)
    /\ columns = AllColumns
    /\ prev = df
    /\ pc = "summarised"
    /\ err = "none"
    /\ diag = NoDiag
    /\ report = NoReport
    /\ cleaner = "main"

NextDetect == DetectAnomalies

SpecDetect == InitDetect /\ [][NextDetect]_vars

(* statistical_summary called on its own, on a table the cleaner can      *)
(* return: any cities, numeric temperatures, dates ascending.              *)

InitSummary ==
    /\ \E n \in 0..MaxRows :
         \E cells \in [1..n -> RawCities \X DetectTemperatures] :
            df = [i \in 1..n |->
                    Row(i - 1, cells[i][1], Date(20240100 + i), Num(cells[i][2]))]
    /\ columns = AllColumns
    /\ prev = df
    /\ pc = "cleaned"
    /\ err = "none"
    /\ diag = NoDiag
    /\ report = NoReport
    /\ cleaner = "main"

NextSummary == StatisticalSummary

SpecSummary == InitSummary /\ [][NextSummary]_vars

(* classify_weather called on its own, on any numeric temperature column:  *)
(* it does not depend on the cleaner having run, so NaN and the            *)
(* infinities are possible inputs.                                         *)

ClassifyTemperatures ==
    {Num(t) : t \in {-1, 0, 9, 10, 19, 20, 29, 30}} \cup {NaN, PosInf, NegInf}

InitClassify ==
    /\ \E n \in 0..MaxRows :
         \E cells \in [1..n -> ClassifyTemperatures] :
            df = [i \in 1..n |->
                    Row(i - 1, Text(CityOrder[(i % 2) + 1]), Date(20240100 + i),
                        cells[i])]
    /\ columns = AllColumns
    /\ prev = df
    /\ pc = "detected"
    /\ err = "none"
    /\ diag = NoDiag
    /\ report = NoReport
    /\ cleaner = "none"

NextClassify == ClassifyWeather

SpecClassify == InitClassify /\ [][NextClassify]_vars

----------------------------------------------------------------------------
(* Properties.  At pc = "cleaned" the history variable prev is the table   *)
(* the cleaner was given.                                                  *)

Labels(rows) == {rows[i].index : i \in 1..Len(rows)}

Parses(r) ==
    to_numeric(r.temperature).kind = "num" /\ to_datetime(r.date).kind = "date"

\* a clean_weather_data has just returned a table it was given non-empty
Cleaned == pc = "cleaned" /\ ~empty(prev, columns)

RequiredPresent == {"date", "temperature"} \subseteq columns

\* C1, as stated: on a non-empty table with date and temperature columns the
\* cleaner never adds a row and returns exactly the rows whose date and
\* temperature both parse; nothing else (a missing city) removes a row.
C1_OnlyUnparseableRemoved ==
    Cleaned =>
        /\ Len(df) <= Len(prev)
        /\ Labels(df) = {prev[i].index : i \in {j \in 1..Len(prev) : Parses(prev[j])}}
        /\ Len(df) = Len(prev)
                     - Cardinality({i \in 1..Len(prev) : ~Parses(prev[i])})

\* a row the cleaner keeps: date and temperature parse and no other column
\* of the table holds a missing value in it
Complete(r) == Parses(r) /\ ("city" \in columns => r.city.kind = "text")

\* C1, amended: the cleaner never adds a row and returns exactly the rows
\* whose date and temperature parse and whose other cells (city) are all
\* present; the output count is the input count minus the other rows.
C1_IncompleteRowsRemoved ==
    Cleaned =>
        /\ Len(df) <= Len(prev)
        /\ Labels(df) = {prev[i].index : i \in {j \in 1..Len(prev) : Complete(prev[j])}}
        /\ Len(df) = Len(prev)
                     - Cardinality({i \in 1..Len(prev) : ~Complete(prev[i])})
        /\ \A i \in 1..Len(df) :
              /\ df[i].temperature.kind = "num"
              /\ df[i].date.kind = "date"

\* a row with parseable date and temperature and no city was dropped while
\* another row was kept
C1_Witness ==
    /\ Cleaned
    /\ Len(df) > 0
    /\ \E i \in 1..Len(prev) :
          /\ Parses(prev[i])
          /\ prev[i].city = None
          /\ prev[i].index \notin Labels(df)

\* C2: after either clean_weather_data returns on a non-empty table, the
\* rows are in ascending date order.
C2_SortedByDate ==
    Cleaned =>
        \A i \in 1..(Len(df) - 1) : df[i].date.v <= df[i + 1].date.v

\* C8: rows of equal date keep their input order through main.py's cleaner.
C8_StableSort ==
    (Cleaned /\ cleaner = "main") =>
        \A i, j \in 1..Len(df) :
            (i < j /\ df[i].date = df[j].date) => df[i].index < df[j].index

\* C6, as stated: whatever the row count, a table lacking date or
\* temperature makes the cleaner fail, and no later stage runs.
C6_MissingColumnAlwaysRaises ==
    (cleaner # "none" /\ ~RequiredPresent) =>
        /\ pc = "raised"
        /\ err = "KeyError"
        /\ report = NoReport

\* C6, amended: a table with at least one row and one column that lacks
\* date or temperature makes the cleaner fail with a missing-column error,
\* and neither summarize, detect nor classify runs.
C6_NonEmptyMissingColumnRaises ==
    (cleaner # "none" /\ ~RequiredPresent /\ ~empty(prev, columns)) =>
        /\ pc = "raised"
        /\ err = "KeyError"
        /\ report = NoReport
        /\ diag = NoDiag
        /\ columns \subseteq AllColumns

\* main.py's cleaner failed on a table with rows and a temperature column
\* but no date column
C6_Witness ==
    /\ pc = "raised"
    /\ cleaner = "main"
    /\ "temperature" \in columns
    /\ "date" \notin columns
    /\ Len(prev) > 0

\* C7: with date and temperature present no stage raises: the caller is
\* always at one of the points of the sequence clean, summarize, detect,
\* classify, never at a raised exception; an empty table comes back from
\* clean unchanged with the no-data line, and main.py's cleaner reports the
\* number of rows it dropped.
C7_NoStageRaises ==
    RequiredPresent =>
        /\ err = "none"
        /\ pc # "raised"
        /\ pc \in {"start", "exit", "cleaned", "summarised", "detected",
                  "classified", "reclassified"}
        /\ (pc = "cleaned" /\ Len(prev) = 0) => (df = prev /\ diag.nodata)
        /\ (Cleaned /\ cleaner = "main") => diag.removed = Len(prev) - Len(df)

\* every row of a non-empty table was unparseable, and classify has run on
\* the empty table that was left
C7_Witness ==
    /\ pc = "classified"
    /\ RequiredPresent
    /\ Len(df) = 0
    /\ diag.removed > 1
    /\ diag.anomalies = 0
    /\ err = "none"

FirstPosition(rows, c) ==
    CHOOSE i \in 1..Len(rows) :
        rows[i].city = c /\ \A j \in 1..(i - 1) : rows[j].city # c

\* the cities line: each city of the table once, in order of first appearance
CitiesFirstSeen ==
    /\ {report.cities[k] : k \in 1..Len(report.cities)}
         = {df[i].city : i \in 1..Len(df)}
    /\ \A k, l \in 1..Len(report.cities) :
          k < l => FirstPosition(df, report.cities[k])
                     < FirstPosition(df, report.cities[l])

\* each city's count is the number of its rows, its min and max bound its
\* rows' temperatures, and the counts add up to the number of rows
CountsMatch ==
    /\ \A k \in 1..Len(report.city_stats) :
          LET g == report.city_stats[k]
              mine == {i \in 1..Len(df) : df[i].city = Text(g.city)}
          IN  /\ g.stats.count = Cardinality(mine)
              /\ g.stats.mean.v[2] = Cardinality(mine)
              /\ \A i \in mine :
                    g.stats.min.v <= df[i].temperature.v
                    /\ df[i].temperature.v <= g.stats.max.v
    /\ SumSeq([k \in 1..Len(report.city_stats) |->
                 report.city_stats[k].stats.count]) = Len(df)
    /\ report.total = Len(df)

Summarised == pc = "summarised" /\ "city" \in columns

\* C9, as stated: the per-city table is keyed in order of first appearance,
\* like the cities line; counts match; the table is left as it was.
C9_StatsInFirstSeenOrder ==
    Summarised =>
        /\ CitiesFirstSeen
        /\ [k \in 1..Len(report.city_stats) |-> Text(report.city_stats[k].city)]
             = report.cities
        /\ CountsMatch
        /\ df = prev

CityRank(c) == CHOOSE k \in 1..Len(CityOrder) : CityOrder[k] = c

\* C9, amended: the cities line is in first-seen order, the per-city table
\* is keyed by the same cities in ascending order of name; counts match;
\* the table is left as it was.
C9_StatsInNameOrder ==
    Summarised =>
        /\ CitiesFirstSeen
        /\ {Text(report.city_stats[k].city) : k \in 1..Len(report.city_stats)}
             = {report.cities[k] : k \in 1..Len(report.cities)}
        /\ \A k, l \in 1..Len(report.city_stats) :
              k < l => CityRank(report.city_stats[k].city)
                         < CityRank(report.city_stats[l].city)
        /\ CountsMatch
        /\ df = prev

\* Bursa is seen before Ankara, and the per-city table starts with Ankara
C9_Witness ==
    /\ Summarised
    /\ Len(report.cities) = 2
    /\ report.cities[1] = Text("Bursa")
    /\ report.city_stats[1].city = "Ankara"
    /\ Len(df) = 3

----------------------------------------------------------------------------
(* Properties of detect_anomalies, stated from the sums of the whole       *)
(* temperature column: with n rows, S the sum and SQ the sum of squares,   *)
(* mean = S/n and std^2 = (n*SQ - S^2) / (n*(n-1)), so                     *)
(*   t > mean + 2*std  iff  n*t - S > 0 and                                *)
(*                          (n*t - S)^2 * (n-1) > 4*n*(n*SQ - S^2).        *)

Detected == pc = "detected"

ColumnSum == SumSeq(Values(df))

ColumnSumSq == SumSeq([i \in 1..Len(df) |-> Values(df)[i] * Values(df)[i]])

Spread == Len(df) * ColumnSumSq - ColumnSum * ColumnSum

Outside(t) ==
    (Len(df) * t - ColumnSum) * (Len(df) * t - ColumnSum) * (Len(df) - 1)
        > 4 * Len(df) * Spread

IsHigh(t) == Len(df) * t - ColumnSum > 0 /\ Outside(t)

IsLow(t) == Len(df) * t - ColumnSum < 0 /\ Outside(t)

\* C3: on n >= 2 rows every row is tagged against the mean and the sample
\* standard deviation of ALL rows, whatever its city: High iff above
\* mean + 2s, else Low iff below mean - 2s, else Normal; the anomaly count
\* is the number of rows not Normal; [0,0,0,0,100] is all Normal, in
\* [1 x 9, 1000] exactly the last row is High, equal temperatures are Normal.
C3_GlobalBand ==
    (Detected /\ Len(df) >= 2) =>
        /\ \A i \in 1..Len(df) :
              LET t == df[i].temperature.v
              IN  /\ df[i].anomaly = "High anomaly" <=> IsHigh(t)
                  /\ df[i].anomaly = "Low anomaly" <=> (~IsHigh(t) /\ IsLow(t))
                  /\ df[i].anomaly = "Normal" <=> (~IsHigh(t) /\ ~IsLow(t))
        /\ diag.anomalies
             = Cardinality({i \in 1..Len(df) : df[i].anomaly # "Normal"})
        /\ Values(df) = <<0, 0, 0, 0, 100>>
             => \A i \in 1..5 : df[i].anomaly = "Normal"
        /\ Values(df) = <<1, 1, 1, 1, 1, 1, 1, 1, 1, 1000>>
             => \A i \in 1..10 :
                   df[i].anomaly = IF i = 10 THEN "High anomaly" ELSE "Normal"
        /\ (\A i \in 1..Len(df) : Values(df)[i] = Values(df)[1])
             => \A i \in 1..Len(df) : df[i].anomaly = "Normal"

\* the ten-row example has been tagged, its last row High and counted
C3_Witness ==
    /\ Detected
    /\ Values(df) = <<1, 1, 1, 1, 1, 1, 1, 1, 1, 1000>>
    /\ df[10].anomaly = "High anomaly"
    /\ df[10].city # df[9].city
    /\ diag.anomalies = 1

\* C4: rolling_avg at 0-based position i >= 2 is the mean of the
\* temperatures at i-2, i-1, i, cities interleaved, and is NaN at positions
\* 0 and 1; for [10, 20, 30] the last row's rolling_avg is 20.
C4_TrailingWindow ==
    Detected =>
        /\ \A i \in 1..Len(df) :
              IF i <= 2
              THEN df[i].rolling_avg = NaN
              ELSE /\ df[i].rolling_avg.kind = "ratio"
                   /\ df[i].rolling_avg.v[2] = 3
                   /\ df[i].rolling_avg.v[1]
                        = df[i - 2].temperature.v + df[i - 1].temperature.v
                          + df[i].temperature.v
        /\ Values(df) = <<10, 20, 30>>
             => df[3].rolling_avg.v[1] = 20 * df[3].rolling_avg.v[2]

\* the three-row example has been through detect
C4_Witness ==
    /\ Detected
    /\ Values(df) = <<10, 20, 30>>
    /\ df[1].rolling_avg = NaN
    /\ df[3].rolling_avg.kind = "ratio"

\* C10: on fewer than 2 rows detect does not raise, tags every row Normal
\* and reports 0 anomalies.
C10_FewRowsNormal ==
    (pc # "summarised" /\ Len(prev) < 2) =>
        /\ pc = "detected"
        /\ err = "none"
        /\ Len(df) = Len(prev)
        /\ \A i \in 1..Len(df) : df[i].anomaly = "Normal"
        /\ diag.anomalies = 0

\* detect has run on a single row
C10_Witness ==
    /\ Detected
    /\ Len(df) = 1
    /\ df[1].anomaly = "Normal"
    /\ diag.anomalies = 0

----------------------------------------------------------------------------
(* Properties of classify_weather *)

Classified == pc \in {"classified", "reclassified"}

\* the five rules of the classifier, for a finite temperature
Rules(t) ==
    <<t < 0, 0 <= t /\ t < 10, 10 <= t /\ t < 20, 20 <= t /\ t < 30, t >= 30>>

Labels5 == <<"Very Cold", "Cold", "Mild", "Hot", "Very Hot">>

\* C5: the condition depends on the row's temperature alone; a finite
\* temperature matches exactly one of the five rules and gets its label,
\* never Unknown, so Unknown marks a non-finite temperature; running
\* classify again on its own output leaves every condition as it was.
C5_Partition ==
    Classified =>
        /\ \A i \in 1..Len(df) :
              LET c == df[i].temperature
              IN  /\ c.kind = "num" =>
                        /\ Cardinality({k \in 1..5 : Rules(c.v)[k]}) = 1
                        /\ \A k \in 1..5 :
                              Rules(c.v)[k] => df[i].condition = Labels5[k]
                  /\ df[i].condition = "Unknown" => c.kind # "num"
                  /\ \A j \in 1..Len(df) :
                        df[j].temperature = c => df[j].condition = df[i].condition
        /\ pc = "reclassified" =>
              /\ Len(df) = Len(prev)
              /\ \A i \in 1..Len(df) : df[i].condition = prev[i].condition

\* classify has run twice on a table holding the boundary 0, the boundary
\* 30 and a NaN
C5_Witness ==
    /\ pc = "reclassified"
    /\ Len(df) = 3
    /\ df[1].temperature = Num(0) /\ df[1].condition = "Cold"
    /\ df[2].temperature = Num(30) /\ df[2].condition = "Very Hot"
    /\ df[3].temperature = NaN /\ df[3].condition = "Unknown"

====
